---- MODULE Spec2Model ----
(***************************************************************************)
(* A model of the grammar example resolver: the Eventually cell of         *)
(* src/src/eventually.rs and resolve_rule / the driver tasks of            *)
(* src/src/main.rs.  Tasks are tokio tasks; every task runs a stack of     *)
(* frames (one per active async fn call) and takes one step per action.    *)
(* The steps are cut at the await points of the code.                      *)
(***************************************************************************)
EXTENDS Integers, Sequences, FiniteSets, TLC

VARIABLES
    grammar,    \* the variables being resolved: a sequence of [name, rule]
    tasks,      \* the spawned tasks, by task id (1..Len(tasks))
    cells,      \* the Eventually cells ever shared, by cell id
    table,      \* symbol_resolutions: name -> cell id (0 = no entry)
    tlock,      \* the RwLock around symbol_resolutions
    main,       \* main after spawning: the tasks its join loop has joined, and
                \* whether main is in the loop or at its end
    lastWrite,  \* history: per cell, the argument of the write committed last
                \* and the number of writes committed
    reads,      \* history: the read() calls that returned
    commits,    \* history: the write() calls that committed
    choices,    \* history: the Choice rules that returned
    seqs        \* history: the Seq rules that returned

vars == <<grammar, tasks, cells, table, tlock, main, lastWrite, reads, commits, choices, seqs>>

(***************************************************************************)
(* Bounds of the model.                                                    *)
(***************************************************************************)
\* the largest rule tree (in nodes) resolved in SpecPure
MaxNodes == 4
\* the client tasks of the cell harness and the calls they make in all
NumClients == 3
MaxOps == 5

(***************************************************************************)
(* Option<T>: None is the empty sequence, Some(x) the sequence <<x>>.      *)
(***************************************************************************)
None == <<>>
Some(x) == <<x>>
IsSome(o) == o # <<>>
Unwrap(o) == o[1]

(***************************************************************************)
(* Rule trees.                                                             *)
(***************************************************************************)
Blank == [type |-> "Blank", s |-> "", id |-> 0, rules |-> <<>>]
String(str) == [type |-> "String", s |-> str, id |-> 0, rules |-> <<>>]
Pattern(str) == [type |-> "Pattern", s |-> str, id |-> 0, rules |-> <<>>]
Metadata(rule) == [type |-> "Metadata", s |-> "", id |-> 0, rules |-> <<rule>>]
Repeat(rule) == [type |-> "Repeat", s |-> "", id |-> 0, rules |-> <<rule>>]
SeqOf(rules) == [type |-> "Seq", s |-> "", id |-> 0, rules |-> rules]
Choice(rules) == [type |-> "Choice", s |-> "", id |-> 0, rules |-> rules]
NamedSymbol(name) == [type |-> "NamedSymbol", s |-> name, id |-> 0, rules |-> <<>>]
Symbol(sym) == [type |-> "Symbol", s |-> "", id |-> sym, rules |-> <<>>]

\* the pattern table built in main
pattern_matches ==
    ( "[^\\\\\"\\n]+" :> "" ) @@
    ( "(\\\"|\\\\|\\/|b|f|n|r|t|u)" :> "\"" ) @@
    ( "[^*]*\\*+([^/*][^*]*\\*+)*" :> "*" ) @@
    ( ".*" :> "" ) @@
    ( "[0-7]+" :> "0" ) @@
    ( "\\d+" :> "0" ) @@
    ( "[\\da-fA-F]+" :> "0" )

\* Rule::Pattern: the table entry on a hit, None on a miss
PatternLookup(s) ==
    IF s \in DOMAIN pattern_matches THEN Some(pattern_matches[s]) ELSE None

\* a join that puts the strings in the opposite order
RECURSIVE JoinReversed(_)
JoinReversed(strings) ==
    IF strings = <<>> THEN "" ELSE JoinReversed(Tail(strings)) \o Head(strings)

\* strings.join(""): the concatenation of the strings, in order
RECURSIVE Join(_)
Join(strings) ==
    IF strings = <<>> THEN "" ELSE Head(strings) \o Join(Tail(strings))

(***************************************************************************)
(* tokio::sync::RwLock: a fair lock.  r are the tasks holding a read       *)
(* guard, w the task holding the write guard (0 = none), q the requests    *)
(* waiting, oldest first.  A request is served only when every older       *)
(* request has been served.                                                *)
(***************************************************************************)
NewLock == [r |-> {}, w |-> 0, q |-> <<>>]

RECURSIVE Grant(_)
Grant(l) ==
    IF l.q = <<>> \/ l.w # 0 THEN l
    ELSE IF Head(l.q).m = "r"
         THEN Grant([l EXCEPT !.r = @ \cup {Head(l.q).t}, !.q = Tail(@)])
         ELSE IF l.r = {}
              THEN [l EXCEPT !.w = Head(l.q).t, !.q = Tail(@)]
              ELSE l

LockRead(l, t) == Grant([l EXCEPT !.q = Append(@, [t |-> t, m |-> "r"])])
LockWrite(l, t) == Grant([l EXCEPT !.q = Append(@, [t |-> t, m |-> "w"])])
HoldsRead(l, t) == t \in l.r
HoldsWrite(l, t) == l.w = t
DropRead(l, t) == Grant([l EXCEPT !.r = @ \ {t}])
DropWrite(l, t) == Grant([l EXCEPT !.w = 0])

RECURSIVE Without(_, _)
Without(q, ts) ==
    IF q = <<>> THEN <<>>
    ELSE IF Head(q).t \in ts THEN Without(Tail(q), ts)
         ELSE <<Head(q)>> \o Without(Tail(q), ts)

\* the guards and pending requests of the tasks ts are dropped
DropAll(l, ts) ==
    Grant([r |-> l.r \ ts, w |-> IF l.w \in ts THEN 0 ELSE l.w, q |-> Without(l.q, ts)])

(***************************************************************************)
(* Eventually<T>: Inner { option_value, notify } behind an RwLock.         *)
(* waiters are the tasks suspended in notify.notified().                   *)
(***************************************************************************)
NewCell == [option_value |-> None, lock |-> NewLock, waiters |-> {}]

(***************************************************************************)
(* Tasks and frames.  resolution is a copy of the local of that name of a   *)
(* variable's task, kept after the task has ended.                         *)
(***************************************************************************)
Frame(op, pc) ==
    [op |-> op, pc |-> pc, rule |-> Blank, i |-> 1, strings |-> <<>>,
     results |-> <<>>, kids |-> {}, cell |-> 0, val |-> None, name |-> "",
     seen |-> None, n |-> 0]

ResolveFrame(rule) == [Frame("resolve", "start") EXCEPT !.rule = rule]
DriverFrame(var) == [Frame("driver", "start") EXCEPT !.rule = var.rule, !.name = var.name]
ReadFrame(c) == [Frame("read", "r_lock") EXCEPT !.cell = c]
WriteFrame(c, v) == [Frame("write", "w_lock") EXCEPT !.cell = c, !.val = v]
ClientFrame == Frame("client", "idle")

NewTask(frame) ==
    [st |-> "run", aborted |-> FALSE, stack |-> <<frame>>, ret |-> None, out |-> None,
     resolution |-> None]

TaskIds == 1..Len(tasks)
Running(t) == t \in TaskIds /\ tasks[t].st = "run"
Top(t) == tasks[t].stack[Len(tasks[t].stack)]
At(t, op, pc) == Running(t) /\ Top(t).op = op /\ Top(t).pc = pc

\* the task with its top frame replaced
WithTop(task, f) == [task EXCEPT !.stack[Len(task.stack)] = f]
\* the task after calling an async fn: the caller moves to pc, the callee is pushed
Call(task, pc, f) ==
    [task EXCEPT !.stack = Append([@ EXCEPT ![Len(@)].pc = pc], f)]
\* the task after its top frame returned v: the value goes to the caller, or
\* is the task's output when the frame was the task's body
Return(task, v) ==
    IF Len(task.stack) = 1
    THEN [task EXCEPT !.stack = <<>>, !.st = "done", !.out = v, !.ret = v]
    ELSE [task EXCEPT !.stack = SubSeq(@, 1, Len(@) - 1), !.ret = v]


\* the names a symbol table entry is made for
Names == {"A", "B", "Z"}

\* main before its join loop has joined a task
MainStart == [joined |-> {}, pc |-> "loop"]

\* nothing has returned or committed yet
NoHistory ==
    /\ reads = {}
    /\ commits = {}
    /\ choices = {}
    /\ seqs = {}

\* the variable whose task t is ("" for a task that is not a variable's)
Writer(t) == tasks[t].stack[1].name
\* no write has committed on the cell
NoWrite == [v |-> None, n |-> 0]

\* tasks with task t replaced
Put(t, task) == [tasks EXCEPT ![t] = task]

(***************************************************************************)
(* resolve_rule: the leaves.                                               *)
(***************************************************************************)
LeafTypes == {"Blank", "String", "Pattern", "Symbol"}

LeafValue(rule) ==
    CASE rule.type = "Blank" -> Some("")
      [] rule.type = "String" -> Some(rule.s)
      [] rule.type = "Pattern" -> PatternLookup(rule.s)
      [] rule.type = "Symbol" -> None

ResolveLeaf(t) ==
    /\ At(t, "resolve", "start")
    /\ Top(t).rule.type \in LeafTypes
    /\ tasks' = Put(t, Return(tasks[t], LeafValue(Top(t).rule)))
    /\ UNCHANGED <<grammar, main, cells, table, tlock, lastWrite, reads, commits, choices, seqs>>

(***************************************************************************)
(* resolve_rule: Metadata and Repeat resolve the wrapped rule and return   *)
(* its result.                                                             *)
(***************************************************************************)
ResolveWrapped(t) ==
    /\ At(t, "resolve", "start")
    /\ Top(t).rule.type \in {"Metadata", "Repeat"}
    /\ tasks' = Put(t, Call(tasks[t], "wrapped", ResolveFrame(Top(t).rule.rules[1])))
    /\ UNCHANGED <<grammar, main, cells, table, tlock, lastWrite, reads, commits, choices, seqs>>

WrappedResult(resolution) == resolution

WrappedReturn(t) ==
    /\ At(t, "resolve", "wrapped")
    /\ tasks' = Put(t, Return(tasks[t], WrappedResult(tasks[t].ret)))
    /\ UNCHANGED <<grammar, main, cells, table, tlock, lastWrite, reads, commits, choices, seqs>>

(***************************************************************************)
(* resolve_rule: Seq.  The elements are resolved one after the other; a    *)
(* Some is pushed on strings, a None returns None at once; after the last  *)
(* element the strings are joined.                                         *)
(***************************************************************************)
\* a loop that goes on to the next element when an element is None
SeqFoldSkipsNone(strings, resolution) ==
    IF IsSome(resolution) THEN Some(Append(strings, Unwrap(resolution))) ELSE Some(strings)

\* what the loop does with the result of an element: Some(strings) = the
\* strings after the push, None = return None
SeqFold(strings, resolution) ==
    IF IsSome(resolution) THEN Some(Append(strings, Unwrap(resolution))) ELSE None

\* the value of the Seq once the loop has ended
SeqResult(strings) == Some(Join(strings))

SeqEntry(t, f, ret) == [t |-> t, rule |-> f.rule, results |-> f.results, ret |-> ret]

\* the loop head with frame f: the next element is resolved, or the loop ends
SeqAdvance(t, f) ==
    IF f.i > Len(f.rule.rules)
    THEN /\ tasks' = Put(t, Return(tasks[t], SeqResult(f.strings)))
         /\ seqs' = seqs \cup {SeqEntry(t, f, SeqResult(f.strings))}
    ELSE /\ tasks' = Put(t, Call(WithTop(tasks[t], f), "seq_elem",
                                 ResolveFrame(f.rule.rules[f.i])))
         /\ seqs' = seqs

SeqStart(t) ==
    /\ At(t, "resolve", "start")
    /\ Top(t).rule.type = "Seq"
    /\ SeqAdvance(t, Top(t))
    /\ UNCHANGED <<grammar, main, cells, table, tlock, lastWrite, reads, commits, choices>>

SeqElem(t) ==
    /\ At(t, "resolve", "seq_elem")
    /\ LET f == Top(t)
           resolution == tasks[t].ret
           g == [f EXCEPT !.results = Append(@, resolution)]
           folded == SeqFold(f.strings, resolution)
       IN  IF IsSome(folded)
           THEN SeqAdvance(t, [g EXCEPT !.strings = Unwrap(folded), !.i = @ + 1])
           ELSE /\ tasks' = Put(t, Return(tasks[t], None))
                /\ seqs' = seqs \cup {SeqEntry(t, g, None)}
    /\ UNCHANGED <<grammar, main, cells, table, tlock, lastWrite, reads, commits, choices>>


(***************************************************************************)
(* resolve_rule: Choice.  One task is spawned per alternative; the first   *)
(* result join_next hands over decides: Some(s) is returned from inside    *)
(* the loop, anything else ends the loop and None is returned.  Returning  *)
(* drops the JoinSet, which aborts the tasks still in it.                  *)
(***************************************************************************)
ChoiceSpawn(t) ==
    /\ At(t, "resolve", "start")
    /\ Top(t).rule.type = "Choice"
    /\ LET rules == Top(t).rule.rules
           kids == (Len(tasks) + 1)..(Len(tasks) + Len(rules))
           f == [Top(t) EXCEPT !.pc = "join", !.kids = kids]
       IN  tasks' = Put(t, WithTop(tasks[t], f))
                    \o [k \in 1..Len(rules) |-> NewTask(ResolveFrame(rules[k]))]
    /\ UNCHANGED <<grammar, main, cells, table, tlock, lastWrite, reads, commits, choices, seqs>>

\* a Choice that turns a None alternative into the empty string
ChoiceResultOrDefault(joined) == IF IsSome(joined) THEN joined ELSE Some("")

\* while let Some(Ok(Some(s))) = join_next: what the Choice returns when
\* join_next hands over the output joined of a finished task
ChoiceResult(joined) == IF IsSome(joined) THEN joined ELSE None

\* a JoinSet whose drop leaves its tasks alone
AbortNone(tsk, ks) == tsk

\* the tasks with the tasks ks aborted (a finished task stays finished)
Abort(tsk, ks) ==
    [k \in DOMAIN tsk |->
        IF k \in ks /\ tsk[k].st = "run" THEN [tsk[k] EXCEPT !.aborted = TRUE] ELSE tsk[k]]

ChoiceJoin(t) ==
    /\ At(t, "resolve", "join")
    /\ LET kids == Top(t).kids
       IN  \/ /\ kids = {}
              /\ tasks' = Put(t, Return(tasks[t], None))
              /\ choices' = choices \cup {[t |-> t, kids |-> kids, from |-> 0, ret |-> None]}
           \/ \E k \in kids :
                 /\ tasks[k].st = "done"
                 /\ LET ret == ChoiceResult(tasks[k].out)
                    IN  /\ tasks' = Abort(Put(t, Return(tasks[t], ret)), kids)
                        /\ choices' = choices \cup
                                        {[t |-> t, kids |-> kids, from |-> k, ret |-> ret]}
    /\ UNCHANGED <<grammar, main, cells, table, tlock, lastWrite, reads, commits, seqs>>

(***************************************************************************)
(* Eventually::read and Eventually::write.                                 *)
(***************************************************************************)
\* the cell after the calling task asked for its lock
CellLockRead(c, t) == [cells EXCEPT ![c].lock = LockRead(@, t)]
CellLockWrite(c, t) == [cells EXCEPT ![c].lock = LockWrite(@, t)]

\* a read that returns the default value of T instead of waiting
ReadResultOrDefault(option_value) == IF IsSome(option_value) THEN option_value ELSE Some(0)

\* a read of an Option cell that returns the default, None, instead of waiting
ReadResultOrNone(option_value) == IF IsSome(option_value) THEN option_value ELSE Some(None)

\* a read that takes the value out of the cell
ReadTakes(option_value) == None

\* read: if let Some(value) = inner.option_value.clone(): what the loop
\* matches on, Some(value) = return value, None = wait
ReadResult(option_value) == option_value

\* read: what is left in the cell when read returns (clone() leaves the value)
ReadLeaves(option_value) == option_value

\* the loop of read, under the guard inner taken at the start of read and
\* held until read returns: return the committed value, or wait in notified()
ReadCheck(t) ==
    /\ Running(t)
    /\ Top(t).op = "read"
    /\ LET c == Top(t).cell
           inner == cells[c]
           got == ReadResult(inner.option_value)
       IN  /\ HoldsRead(inner.lock, t)
           /\ \/ Top(t).pc = "r_lock"
              \/ Top(t).pc = "r_notified" /\ t \notin inner.waiters
           /\ IF IsSome(got)
              THEN /\ tasks' = Put(t, Return(tasks[t], Unwrap(got)))
                   /\ cells' = [cells EXCEPT ![c].lock = DropRead(@, t),
                                             ![c].option_value = ReadLeaves(@)]
                   /\ reads' = reads \cup
                         {[cell |-> c, v |-> Unwrap(got),
                           last |-> lastWrite[c].v]}
              ELSE /\ tasks' = Put(t, WithTop(tasks[t], [Top(t) EXCEPT !.pc = "r_notified"]))
                   /\ cells' = [cells EXCEPT ![c].waiters = @ \cup {t}]
                   /\ reads' = reads
    /\ UNCHANGED <<grammar, main, table, tlock, lastWrite, commits, choices, seqs>>

\* a write of an Option cell that commits the default, None
WriteValueDefault(old, value) == Some(None)

\* write: the option_value after write(value) on a cell holding old
WriteValue(old, value) == Some(value)

\* write: the tasks left suspended in notified() after notify_waiters
WriteWakes(waiters) == {}

\* the cell after write(value) ran to its end under the write guard
Written(inner, value, t) ==
    [inner EXCEPT !.option_value = WriteValue(@, value),
                  !.waiters = WriteWakes(@),
                  !.lock = DropWrite(@, t)]

WriteCommit(t) ==
    /\ At(t, "write", "w_lock")
    /\ LET c == Top(t).cell
           value == Top(t).val
       IN  /\ HoldsWrite(cells[c].lock, t)
           /\ cells' = [cells EXCEPT ![c] = Written(@, value, t)]
           /\ lastWrite' = [lastWrite EXCEPT ![c] = [v |-> Some(value), n |-> @.n + 1]]
           /\ commits' = commits \cup {[by |-> Writer(t), cell |-> c, v |-> value]}
           /\ tasks' = Put(t, Return(tasks[t], None))
    /\ UNCHANGED <<grammar, main, table, tlock, reads, choices, seqs>>

(***************************************************************************)
(* resolve_rule: NamedSymbol.  The name is registered under the table's    *)
(* write guard; then the table's read guard entry is taken and kept until  *)
(* the read of the cell has returned.                                      *)
(***************************************************************************)
NamedStart(t) ==
    /\ At(t, "resolve", "start")
    /\ Top(t).rule.type = "NamedSymbol"
    /\ tlock' = LockWrite(tlock, t)
    /\ tasks' = Put(t, WithTop(tasks[t], [Top(t) EXCEPT !.pc = "ns_register"]))
    /\ UNCHANGED <<grammar, main, cells, table, lastWrite, reads, commits, choices, seqs>>

\* an insert that replaces the cell of a name already in the table
OrInsertOverwrites(tbl, name, c) == [tbl EXCEPT ![name] = c]

\* entry(name).or_insert(cell): the table afterwards
OrInsert(tbl, name, c) == IF tbl[name] = 0 THEN [tbl EXCEPT ![name] = c] ELSE tbl

NamedRegister(t) ==
    /\ At(t, "resolve", "ns_register")
    /\ HoldsWrite(tlock, t)
    /\ LET name == Top(t).rule.s
       IN  /\ table' = OrInsert(table, name, Len(cells) + 1)
           /\ IF table'[name] = Len(cells) + 1
              THEN /\ cells' = Append(cells, NewCell)
                   /\ lastWrite' = Append(lastWrite, NoWrite)
              ELSE UNCHANGED <<cells, lastWrite>>
    /\ tlock' = LockRead(DropWrite(tlock, t), t)
    /\ tasks' = Put(t, WithTop(tasks[t], [Top(t) EXCEPT !.pc = "ns_lookup"]))
    /\ UNCHANGED <<grammar, main, reads, commits, choices, seqs>>

NamedLookup(t) ==
    /\ At(t, "resolve", "ns_lookup")
    /\ HoldsRead(tlock, t)
    /\ LET c == table[Top(t).rule.s]
       IN  /\ tasks' = Put(t, Call(tasks[t], "ns_return",
                                   [ReadFrame(c) EXCEPT !.seen = lastWrite[c].v]))
           /\ cells' = CellLockRead(c, t)
    /\ UNCHANGED <<grammar, main, table, tlock, lastWrite, reads, commits, choices, seqs>>

NamedReturn(t) ==
    /\ At(t, "resolve", "ns_return")
    /\ tlock' = DropRead(tlock, t)
    /\ tasks' = Put(t, Return(tasks[t], tasks[t].ret))
    /\ UNCHANGED <<grammar, main, cells, table, lastWrite, reads, commits, choices, seqs>>

(***************************************************************************)
(* main: the task spawned for a variable resolves the variable's rule and  *)
(* commits the resolution to the variable's cell under the table's write   *)
(* guard.                                                                  *)
(***************************************************************************)
DriverStart(t) ==
    /\ At(t, "driver", "start")
    /\ tasks' = Put(t, Call(tasks[t], "resolved", ResolveFrame(Top(t).rule)))
    /\ UNCHANGED <<grammar, main, cells, table, tlock, lastWrite, reads, commits, choices, seqs>>

DriverResolved(t) ==
    /\ At(t, "driver", "resolved")
    /\ tlock' = LockWrite(tlock, t)
    /\ tasks' = Put(t, [WithTop(tasks[t], [Top(t) EXCEPT !.pc = "entry",
                                                         !.val = tasks[t].ret])
                          EXCEPT !.resolution = Some(tasks[t].ret)])
    /\ UNCHANGED <<grammar, main, cells, table, lastWrite, reads, commits, choices, seqs>>

DriverEntry(t) ==
    /\ At(t, "driver", "entry")
    /\ HoldsWrite(tlock, t)
    /\ LET name == Top(t).name
           resolution == Top(t).val
           c == table[name]
           fresh == Len(cells) + 1
       IN  IF c # 0
           THEN \* Entry::Occupied: write on the cell in the table
                /\ tasks' = Put(t, Call(tasks[t], "written", WriteFrame(c, resolution)))
                /\ cells' = CellLockWrite(c, t)
                /\ UNCHANGED <<table, tlock, lastWrite, commits>>
           ELSE \* Entry::Vacant: a new cell is written, then inserted
                /\ cells' = Append(cells, Written(NewCell, resolution, t))
                /\ lastWrite' = Append(lastWrite, [v |-> Some(resolution), n |-> 1])
                /\ commits' = commits \cup {[by |-> Writer(t), cell |-> fresh, v |-> resolution]}
                /\ table' = [table EXCEPT ![name] = fresh]
                /\ tlock' = DropWrite(tlock, t)
                /\ tasks' = Put(t, Return(tasks[t], None))
    /\ UNCHANGED <<grammar, main, reads, choices, seqs>>

DriverWritten(t) ==
    /\ At(t, "driver", "written")
    /\ tlock' = DropWrite(tlock, t)
    /\ tasks' = Put(t, Return(tasks[t], None))
    /\ UNCHANGED <<grammar, main, cells, table, lastWrite, reads, commits, choices, seqs>>

(***************************************************************************)
(* An aborted task is dropped by the runtime: its guards and pending       *)
(* requests are dropped with it, and so are the JoinSets it owns.          *)
(***************************************************************************)
OwnedKids(task) == UNION {task.stack[j].kids : j \in 1..Len(task.stack)}

Cancel(t) ==
    /\ Running(t)
    /\ tasks[t].aborted
    /\ tasks' = Abort(Put(t, [tasks[t] EXCEPT !.st = "cancelled", !.stack = <<>>]),
                      OwnedKids(tasks[t]))
    /\ tlock' = DropAll(tlock, {t})
    /\ cells' = IF cells = <<>> THEN <<>>
                ELSE [c \in DOMAIN cells |->
                        [cells[c] EXCEPT !.lock = DropAll(@, {t}), !.waiters = @ \ {t}]]
    /\ UNCHANGED <<grammar, main, table, lastWrite, reads, commits, choices, seqs>>

(***************************************************************************)
(* main: the loop around join_set.join_next().  A finished task is taken   *)
(* out of the set; on an empty set join_next returns None and the loop     *)
(* goes round again.                                                       *)
(***************************************************************************)
Drivers == 1..Len(grammar)

\* loop { dbg!(join_next().await); }: does the loop end when join_next
\* returned next?  (the loop has no break)
LoopEnds(next) == FALSE

MainJoin ==
    /\ grammar # <<>>
    /\ main.pc = "loop"
    /\ \/ \E d \in Drivers \ main.joined :
             /\ tasks[d].st = "done"
             /\ main' = [main EXCEPT !.joined = @ \cup {d},
                                     !.pc = IF LoopEnds(Some(d)) THEN "end" ELSE "loop"]
       \/ /\ main.joined = Drivers
          /\ main' = [main EXCEPT !.pc = IF LoopEnds(None) THEN "end" ELSE "loop"]
    /\ UNCHANGED <<grammar, tasks, cells, table, tlock, lastWrite, reads, commits, choices, seqs>>

(***************************************************************************)
(* The resolver: main spawns one task per variable of the grammar.         *)
(***************************************************************************)
SelfReference ==
    Choice(<<String("a"), SeqOf(<<String("("), NamedSymbol("A"), String(")")>>)>>)

ARules ==
    {NamedSymbol("B"),
     NamedSymbol("Z"),
     Choice(<<Pattern("missing"), String("ok")>>),
     Choice(<<>>),
     Choice(<<Pattern("missing"), Symbol(0)>>),
     Choice(<<NamedSymbol("B"), String("ok")>>),
     SelfReference,
     SeqOf(<<NamedSymbol("Z"), Symbol(0)>>),
     SeqOf(<<String("v"), Pattern("missing"), NamedSymbol("B")>>),
     SeqOf(<<NamedSymbol("B"), Pattern("\\d+")>>),
     Metadata(Repeat(NamedSymbol("B")))}

BRules ==
    {String("x"),
     Pattern("missing"),
     NamedSymbol("A"),
     Choice(<<String("x"), String("y")>>)}

\* two variables of the same name
DuplicateNames ==
    <<[name |-> "A", rule |-> String("x")], [name |-> "A", rule |-> Pattern("missing")]>>

Grammars ==
    {<<[name |-> "A", rule |-> a]>> : a \in ARules}
    \cup {DuplicateNames}
    \cup {<<[name |-> "A", rule |-> a], [name |-> "B", rule |-> b]>> :
            a \in ARules, b \in BRules}

Init ==
    /\ grammar \in Grammars
    /\ tasks = [d \in 1..Len(grammar) |-> NewTask(DriverFrame(grammar[d]))]
    /\ cells = <<>>
    /\ lastWrite = <<>>
    /\ table = [n \in Names |-> 0]
    /\ tlock = NewLock
    /\ main = MainStart
    /\ NoHistory

Next ==
    \/ \E t \in TaskIds : ResolveLeaf(t)
    \/ \E t \in TaskIds : ResolveWrapped(t)
    \/ \E t \in TaskIds : WrappedReturn(t)
    \/ \E t \in TaskIds : SeqStart(t)
    \/ \E t \in TaskIds : SeqElem(t)
    \/ \E t \in TaskIds : ChoiceSpawn(t)
    \/ \E t \in TaskIds : ChoiceJoin(t)
    \/ \E t \in TaskIds : NamedStart(t)
    \/ \E t \in TaskIds : NamedRegister(t)
    \/ \E t \in TaskIds : NamedLookup(t)
    \/ \E t \in TaskIds : ReadCheck(t)
    \/ \E t \in TaskIds : NamedReturn(t)
    \/ \E t \in TaskIds : DriverStart(t)
    \/ \E t \in TaskIds : DriverResolved(t)
    \/ \E t \in TaskIds : DriverEntry(t)
    \/ \E t \in TaskIds : WriteCommit(t)
    \/ \E t \in TaskIds : DriverWritten(t)
    \/ \E t \in TaskIds : Cancel(t)
    \/ MainJoin

Spec == Init /\ [][Next]_vars

\* every task that can take a step is scheduled again
SpecFair == Spec /\ WF_vars(Next)

(***************************************************************************)
(* The cell on its own, as in the tests of eventually.rs: tasks that share *)
(* one cell and call read and write on it.                                 *)
(***************************************************************************)
Values == {42, 43}

\* the calls made so far by the clients t..Len(tasks)
RECURSIVE Calls(_)
Calls(t) ==
    IF t > Len(tasks) THEN 0
    ELSE (IF tasks[t].stack = <<>> THEN 0 ELSE tasks[t].stack[1].n) + Calls(t + 1)

ClientRead(t) ==
    /\ At(t, "client", "idle")
    /\ Calls(1) < MaxOps
    /\ tasks' = Put(t, Call(WithTop(tasks[t], [Top(t) EXCEPT !.n = @ + 1]), "idle",
                            [ReadFrame(1) EXCEPT !.seen = lastWrite[1].v]))
    /\ cells' = CellLockRead(1, t)
    /\ UNCHANGED <<grammar, main, table, tlock, lastWrite, reads, commits, choices, seqs>>

ClientWrite(t) ==
    /\ At(t, "client", "idle")
    /\ Calls(1) < MaxOps
    /\ \E v \in Values :
          tasks' = Put(t, Call(WithTop(tasks[t], [Top(t) EXCEPT !.n = @ + 1]), "idle",
                               WriteFrame(1, v)))
    /\ cells' = CellLockWrite(1, t)
    /\ UNCHANGED <<grammar, main, table, tlock, lastWrite, reads, commits, choices, seqs>>

InitCell ==
    /\ grammar = <<>>
    /\ tasks = [t \in 1..NumClients |-> NewTask(ClientFrame)]
    /\ cells = <<NewCell>>
    /\ lastWrite = <<NoWrite>>
    /\ table = [n \in Names |-> 0]
    /\ tlock = NewLock
    /\ main = MainStart
    /\ NoHistory

NextCell ==
    \/ \E t \in TaskIds : ClientRead(t)
    \/ \E t \in TaskIds : ClientWrite(t)
    \/ \E t \in TaskIds : ReadCheck(t)
    \/ \E t \in TaskIds : WriteCommit(t)

SpecCell == InitCell /\ [][NextCell]_vars

SpecCellFair == SpecCell /\ WF_vars(NextCell)

(***************************************************************************)
(* The rules without NamedSymbol and Choice, resolved by one task with an  *)
(* empty symbol table.                                                     *)
(***************************************************************************)
Leaves == {Blank, String("v"), Pattern("\\d+"), Pattern("missing"), Symbol(0)}

RECURSIVE RulesOfSize(_), SeqsOfSize(_)
\* the rule trees of exactly n nodes
RulesOfSize(n) ==
    (IF n = 1 THEN Leaves ELSE {})
    \cup (IF n >= 2
          THEN {Metadata(r) : r \in RulesOfSize(n - 1)}
               \cup {Repeat(r) : r \in RulesOfSize(n - 1)}
          ELSE {})
    \cup {SeqOf(rs) : rs \in SeqsOfSize(n - 1)}
\* the sequences of rule trees of m nodes in all
SeqsOfSize(m) ==
    IF m = 0 THEN {<<>>}
    ELSE UNION {{<<r>> \o rest : r \in RulesOfSize(j), rest \in SeqsOfSize(m - j)} :
                j \in 1..m}

PureRules == UNION {RulesOfSize(n) : n \in 1..MaxNodes}

InitPure ==
    /\ \E r \in PureRules :
          /\ grammar = <<[name |-> "A", rule |-> r]>>
          /\ tasks = <<NewTask(ResolveFrame(r))>>
    /\ cells = <<>>
    /\ lastWrite = <<>>
    /\ table = [n \in Names |-> 0]
    /\ tlock = NewLock
    /\ main = MainStart
    /\ NoHistory

NextPure ==
    \/ \E t \in TaskIds : ResolveLeaf(t)
    \/ \E t \in TaskIds : ResolveWrapped(t)
    \/ \E t \in TaskIds : WrappedReturn(t)
    \/ \E t \in TaskIds : SeqStart(t)
    \/ \E t \in TaskIds : SeqElem(t)

SpecPure == InitPure /\ [][NextPure]_vars


(***************************************************************************)
(* Properties.                                                             *)
(***************************************************************************)
\* the cell of name holds the committed value v
Committed(name, v) ==
    /\ table[name] # 0
    /\ cells[table[name]].option_value = Some(v)

\* task t is suspended in notified() inside read
Suspended(t) == At(t, "read", "r_notified")

\* task t is inside write
Writing(t) == Running(t) /\ Top(t).op = "write"

ForwardReference ==
    <<[name |-> "A", rule |-> NamedSymbol("B")], [name |-> "B", rule |-> String("x")]>>

\* C1: in the grammar A = NamedSymbol("B"), B = String("x"), every fair run
\* ends with A's cell committed to Some("x").
C1_ForwardReferenceResolves ==
    (grammar = ForwardReference) => <>Committed("A", Some("x"))

\* C2: a Choice of which an alternative resolved to Some has returned Some.
C2_ChoiceSomeIfAnySome ==
    \A e \in choices :
        (\E k \in e.kids : tasks[k].st = "done" /\ IsSome(tasks[k].out)) => IsSome(e.ret)

\* C3: a reader suspended in read() while a write() is under way on the cell
\* is eventually woken, in every fair run.
C3_WriteWakesSuspendedReaders ==
    \A r \in 1..NumClients : \A w \in 1..NumClients :
        (Suspended(r) /\ Writing(w)) ~> ~Suspended(r)

\* C4: a task suspended in read() holds no guard of the cell's lock.
C4_SuspendedReaderHoldsNoLock ==
    \A t \in TaskIds :
        Suspended(t) => ~HoldsRead(cells[Top(t).cell].lock, t)

UndeclaredReference ==
    <<[name |-> "A", rule |-> NamedSymbol("Z")], [name |-> "B", rule |-> String("x")]>>

\* C5: in the grammar A = NamedSymbol("Z"), B = String("x"), where Z is no
\* variable, every fair run ends with B's cell committed to Some("x").
C5_OtherVariablesStillCommit ==
    (grammar = UndeclaredReference) => <>Committed("B", Some("x"))

\* C6: a Choice that returned Some(s) returned the output of one of its
\* alternatives, and a Choice all of whose alternatives (if any) resolved to
\* None returned None.
C6_ChoiceReturnsAnAlternative ==
    \A e \in choices :
        /\ IsSome(e.ret) =>
              \E k \in e.kids : tasks[k].st = "done" /\ tasks[k].out = e.ret
        /\ (\A k \in e.kids : tasks[k].st = "done" /\ tasks[k].out = None) =>
              e.ret = None

C6_Witness ==
    \E e \in choices :
        /\ e.ret = Some("ok")
        /\ \E k \in e.kids : tasks[k].st = "done" /\ tasks[k].out = None

\* C7: a read() called after a write has committed is never suspended, and
\* every read() returns the value of the write committed last before it
\* returned.
C7_ReadAfterWriteReturnsLatest ==
    /\ \A t \in TaskIds :
          (Running(t) /\ Top(t).op = "read" /\ IsSome(Top(t).seen)) => ~Suspended(t)
    /\ \A e \in reads : e.last = Some(e.v)

C7_Witness ==
    /\ lastWrite[1].n = 2
    /\ [cell |-> 1, v |-> 42, last |-> Some(42)] \in reads
    /\ [cell |-> 1, v |-> 43, last |-> Some(43)] \in reads
    /\ cells[1].option_value = Some(43)

\* C8: a read() has returned only on a cell on which a write has committed.
C8_NoReadWithoutWrite ==
    \A e \in reads :
        /\ lastWrite[e.cell].n > 0
        /\ IsSome(cells[e.cell].option_value)

C8_Witness ==
    /\ lastWrite[1].n = 0
    /\ \A t \in TaskIds : Suspended(t)
    /\ reads = {}

\* the value of a rule without NamedSymbol and Choice
RECURSIVE Reference(_), ReferenceSeq(_)
Reference(rule) ==
    CASE rule.type = "Blank" -> Some("")
      [] rule.type = "String" -> Some(rule.s)
      [] rule.type = "Pattern" ->
            IF rule.s \in DOMAIN pattern_matches THEN Some(pattern_matches[rule.s]) ELSE None
      [] rule.type = "Symbol" -> None
      [] rule.type \in {"Metadata", "Repeat"} -> Reference(rule.rules[1])
      [] rule.type = "Seq" -> ReferenceSeq(rule.rules)
ReferenceSeq(rules) ==
    IF rules = <<>> THEN Some("")
    ELSE LET first == Reference(Head(rules))
             rest == ReferenceSeq(Tail(rules))
         IN  IF first = None \/ rest = None THEN None
             ELSE Some(Unwrap(first) \o Unwrap(rest))

\* C9: resolve_rule on a rule without NamedSymbol and Choice ends, returns
\* the value of the reference evaluator and leaves the symbol table alone.
C9_PureRulesMatchReference ==
    /\ \A t \in TaskIds :
          /\ tasks[t].st = "done" => tasks[t].out = Reference(grammar[1].rule)
          /\ tasks[t].st = "run" => ENABLED NextPure
    /\ table = [n \in Names |-> 0]
    /\ cells = <<>>

C9_Witness ==
    /\ grammar[1].rule = SeqOf(<<String("v"), Pattern("\\d+")>>)
    /\ tasks[1].st = "done"
    /\ tasks[1].out = Some("v0")

\* an element that resolves to None whatever the tasks do
NoneLeaf(rule) == rule.type \in LeafTypes /\ LeafValue(rule) = None
\* task t is resolving a Seq that has such an element
InSeqWithNone(t) ==
    /\ Running(t)
    /\ \E j \in 1..Len(tasks[t].stack) :
          LET f == tasks[t].stack[j]
          IN  /\ f.op = "resolve"
              /\ f.rule.type = "Seq"
              /\ \E i \in 1..Len(f.rule.rules) : NoneLeaf(f.rule.rules[i])

\* C10 as stated: a Seq with an element that resolves to None returns None,
\* whatever its other elements are.
C10_SeqWithNoneReturnsNone ==
    \A d \in 1..2 :
        InSeqWithNone(d) ~> (\E e \in seqs : e.t = d /\ e.ret = None)

\* C10: a Seq that returned after one of its elements resolved to None
\* returned None, and a Seq that returned Some had every element resolve to
\* Some.
C10_SeqReturnsNoneOnNone ==
    \A e \in seqs :
        /\ (\E i \in 1..Len(e.results) : e.results[i] = None) => e.ret = None
        /\ IsSome(e.ret) =>
              /\ Len(e.results) = Len(e.rule.rules)
              /\ \A i \in 1..Len(e.results) : IsSome(e.results[i])

C10_Witness ==
    \E e \in seqs :
        /\ e.rule = SeqOf(<<String("v"), Pattern("missing"), NamedSymbol("B")>>)
        /\ e.results = <<Some("v"), None>>
        /\ e.ret = None


\* task t holds a guard of lock l or waits for one
InLock(l, t) == t \in l.r \/ l.w = t \/ \E i \in 1..Len(l.q) : l.q[i].t = t

C12_CellsStayInTable ==
    [][/\ \A n \in Names : table[n] # 0 => table'[n] = table[n]
       /\ \A n \in Names : \A m \in Names :
             (table'[n] # 0 /\ table'[n] = table'[m]) => n = m
       /\ \A n \in Names : table'[n] \in 0..Len(cells')]_vars

C12_Witness ==
    \E t \in TaskIds :
        /\ At(t, "driver", "written")
        /\ table[Writer(t)] # 0
        /\ lastWrite[table[Writer(t)]].n = 1
        /\ Len(cells) = 1

\* C13: once every task of a variable has finished, main gets to its end.
C13_RunTerminates ==
    (\A d \in Drivers : tasks[d].st = "done") ~> (main.pc = "end")

\* task t waits for the write guard of a cell inside write
AwaitsCellWrite(t) ==
    At(t, "write", "w_lock") /\ ~HoldsWrite(cells[Top(t).cell].lock, t)

\* C14: a task suspended in a cell's read(), or waiting for a cell's lock in
\* write(), holds no guard of the symbol table's lock.
C14_NoTableGuardWhileSuspended ==
    \A t \in TaskIds :
        (Suspended(t) \/ AwaitsCellWrite(t)) =>
            ~HoldsRead(tlock, t) /\ ~HoldsWrite(tlock, t)

\* C15: a value returned by the read of NamedSymbol(name) was committed
\* before to the cell of name by the task of a variable of that name.
C15_NamedSymbolReturnsCommitted ==
    \A e \in reads :
        \E c \in commits :
            /\ c.cell = e.cell
            /\ c.v = e.v
            /\ \E d \in Drivers : grammar[d].name = c.by /\ table[c.by] = e.cell

C15_Witness ==
    /\ [cell |-> table["B"], v |-> None, last |-> Some(None)] \in reads
    /\ grammar[1].rule = NamedSymbol("B")
    /\ tasks[1].resolution = Some(None)

DistinctNames ==
    \A i \in Drivers : \A j \in Drivers : grammar[i].name = grammar[j].name => i = j

\* C16: with pairwise distinct variable names every cell is written at most
\* once, by the task of the variable of its name, with the resolution of
\* that variable; a write is only ever called by a variable's task.
C16_OneWritePerCell ==
    DistinctNames =>
        /\ \A c \in 1..Len(cells) : lastWrite[c].n <= 1
        /\ \A e \in commits :
              \E d \in Drivers :
                 /\ grammar[d].name = e.by
                 /\ table[e.by] = e.cell
                 /\ tasks[d].resolution = Some(e.v)
                 /\ cells[e.cell].option_value = Some(e.v)
        /\ \A t \in TaskIds : \A j \in 1..Len(tasks[t].stack) :
              tasks[t].stack[j].op = "write" => j = 2 /\ tasks[t].stack[1].op = "driver"

C16_Witness ==
    /\ grammar = ForwardReference
    /\ Committed("A", Some("x"))
    /\ Committed("B", Some("x"))
    /\ commits = {[by |-> "A", cell |-> table["A"], v |-> Some("x")],
                  [by |-> "B", cell |-> table["B"], v |-> Some("x")]}

ShortCircuit ==
    <<[name |-> "A",
       rule |-> SeqOf(<<String("v"), Pattern("missing"), NamedSymbol("B")>>)]>>

\* C17: a Seq resolves one element at a time, in order, after all elements
\* before it resolved to Some; it returns at the first None, so that in the
\* grammar A = Seq([String("v"), Pattern("missing"), NamedSymbol("B")]) the
\* name B is never registered.
C17_SeqInOrder ==
    /\ \A t \in TaskIds : \A j \in 1..Len(tasks[t].stack) :
          LET f == tasks[t].stack[j]
          IN  (f.op = "resolve" /\ f.pc = "seq_elem") =>
                 /\ f.i \in 1..Len(f.rule.rules)
                 /\ Len(f.results) = f.i - 1
                 /\ \A i \in 1..Len(f.results) : IsSome(f.results[i])
                 /\ j < Len(tasks[t].stack) =>
                       /\ tasks[t].stack[j + 1].op = "resolve"
                       /\ tasks[t].stack[j + 1].rule = f.rule.rules[f.i]
    /\ \A e \in seqs :
          \A i \in 1..Len(e.results) : e.results[i] = None => i = Len(e.results)
    /\ grammar = ShortCircuit => table["B"] = 0

C17_Witness ==
    /\ grammar = ShortCircuit
    /\ Committed("A", None)
    /\ \E e \in seqs : e.results = <<Some("v"), None>>
    /\ table["B"] = 0

\* C18: in the grammar whose only variable is
\* A = Choice([String("a"), Seq([String("("), NamedSymbol("A"), String(")")])])
\* every fair run ends with A's cell committed to Some("a").
C18_SelfReferenceResolves ==
    (grammar = <<[name |-> "A", rule |-> SelfReference]>>) => <>Committed("A", Some("a"))

C18_Witness ==
    /\ grammar = <<[name |-> "A", rule |-> SelfReference]>>
    /\ Committed("A", Some("a"))
    /\ \E t \in TaskIds : tasks[t].st = "cancelled"
    /\ lastWrite[table["A"]].n = 1 /\ Len(cells) = 1

====
